---------------------------- MODULE Spec2Model ----------------------------
(***************************************************************************)
(* tmux-peacock: colour resolution, the colour cache file and the sync     *)
(* lock, modelled from scripts/peacock_utils.py, scripts/peacock-sync.py   *)
(* and scripts/pane-title-colored.py.                                      *)
(*                                                                         *)
(* A Python str is a sequence of one-character strings.  A JSON value is a *)
(* record [t, s]: t its type, s its text (a str's characters, a list's     *)
(* items, a literal's spelling).  A JSON document (the top-level value of  *)
(* a file) is a record [t, s, o]: o maps every key of Keys to its value,   *)
(* Missing where the object has no such key.                               *)
(***************************************************************************)
EXTENDS Integers, Sequences, FiniteSets, TLC

\* ------------------------------------------------------------------ bounds
NumProcs == 2        \* processes running concurrently
MaxTime == 7         \* the clock (seconds) stops advancing here
MaxJsonTokens == 4   \* MAX_JSON_SIZE, counted in tokens of a file's text

Procs == 1..NumProcs

\* ---------------------------------------------------------------- strings
None == <<"<None>">>

HexLower == <<"0","1","2","3","4","5","6","7","8","9","a","b","c","d","e","f">>
HexUpper == <<"0","1","2","3","4","5","6","7","8","9","A","B","C","D","E","F">>
Whitespace == {" ", "\n"}

IsHexDigit(c) == \E i \in 1..16 : c = HexLower[i] \/ c = HexUpper[i]

\* int(c, 16) of one hex digit
HexVal(c) == (CHOOSE i \in 1..16 : c = HexLower[i] \/ c = HexUpper[i]) - 1

\* str.lower() of one character (of the alphabet of the model)
LowerChar(c) == IF IsHexDigit(c) THEN HexLower[HexVal(c) + 1] ELSE c

Lower(s) == [i \in 1..Len(s) |-> LowerChar(s[i])]

RECURSIVE LStrip(_, _)
LStrip(s, chars) ==
    IF s # <<>> /\ Head(s) \in chars THEN LStrip(Tail(s), chars) ELSE s

RECURSIVE RStrip(_, _)
RStrip(s, chars) ==
    IF s # <<>> /\ s[Len(s)] \in chars
    THEN RStrip(SubSeq(s, 1, Len(s) - 1), chars) ELSE s

\* str.strip()
Strip(s) == RStrip(LStrip(s, Whitespace), Whitespace)

\* s[a:b] of Python, 0-based, clipped to the string
Slice(s, a, b) ==
    LET hi == IF b > Len(s) THEN Len(s) ELSE b
    IN  IF a >= hi THEN <<>> ELSE SubSeq(s, a + 1, hi)

\* --------------------------------------------------------- JSON values
J(t, s) == [t |-> t, s |-> s]
JStr(s) == J("str", s)
JNull == J("null", <<>>)
Missing == J("missing", <<>>)

IsStr(v) == v.t = "str"

\* --------------------------------------------------- colour utilities
\* HEX_COLOR_RE = ^#?([0-9a-fA-F]{6})$ ; the value is the six digits, or None
HexColorMatch(s) ==
    LET body == IF s # <<>> /\ Head(s) = "#" THEN Tail(s) ELSE s
    IN  IF Len(body) = 6 /\ \A i \in 1..6 : IsHexDigit(body[i])
        THEN body ELSE None

\* validate_hex_color that keeps the case of the digits
validate_hex_color_keepcase(color) ==
    IF ~IsStr(color) THEN None
    ELSE LET m == HexColorMatch(Strip(color.s))
         IN  IF m # None THEN <<"#">> \o m ELSE None

\* validate_hex_color: a JSON value in, the normalized str or None out
validate_hex_color(color) ==
    IF ~IsStr(color) THEN None
    ELSE LET m == HexColorMatch(Strip(color.s))
         IN  IF m # None THEN <<"#">> \o Lower(m) ELSE None

\* format(n, "02x") for n >= 0
RECURSIVE HexDigits(_)
HexDigits(n) ==
    IF n < 16 THEN <<HexLower[n + 1]>>
    ELSE HexDigits(n \div 16) \o <<HexLower[(n % 16) + 1]>>

Format02x(n) == IF n < 16 THEN <<"0">> \o HexDigits(n) ELSE HexDigits(n)

rgb_to_hex(rgb) ==
    <<"#">> \o Format02x(rgb[1]) \o Format02x(rgb[2]) \o Format02x(rgb[3])

\* hsl_to_hex in fixed point: h in hundredths of a degree, s and l in percent;
\* p and q in percent, t in 1/36000 of a turn, a channel value as a numerator
\* over TurnScale * 100
TurnScale == 360 * 100

hue_to_rgb(p, q, t0) ==
    LET t1 == IF t0 < 0 THEN t0 + TurnScale ELSE t0
        t == IF t1 > TurnScale THEN t1 - TurnScale ELSE t1
    IN  IF 6 * t < TurnScale THEN p * TurnScale + (q - p) * 6 * t
        ELSE IF 2 * t < TurnScale THEN q * TurnScale
        ELSE IF 3 * t < 2 * TurnScale
             THEN p * TurnScale + (q - p) * (2 * TurnScale - 3 * t) * 2
        ELSE p * TurnScale

hsl_to_hex(h, s, l) ==
    LET q == IF l < 50 THEN (l * (100 + s)) \div 100 ELSE l + s - (l * s) \div 100
        p == 2 * l - q
        third == TurnScale \div 3
        chan(x) == (255 * x) \div (TurnScale * 100)
    IN  IF s = 0
        THEN rgb_to_hex(<<chan(l * TurnScale), chan(l * TurnScale), chan(l * TurnScale)>>)
        ELSE rgb_to_hex(<<chan(hue_to_rgb(p, q, h + third)),
                          chan(hue_to_rgb(p, q, h)),
                          chan(hue_to_rgb(p, q, h - third))>>)

\* frac(int(md5(name)[:8], 16) * 0.618033988749895) * 360, in hundredths of a
\* degree, for the names of the model (hashlib's digest is tabulated)
Md5Hue(name) ==
    CASE name = "proj" -> 11193
      [] name = "other" -> 33076
      [] name = "root" -> 25946
      [] name = "default" -> 22055
      [] name = "" -> 30799

Saturation == 70
Lightness == 50

\* generate_color_for_name of peacock_utils.py: the empty name is "default"
generate_color_for_name(name) ==
    hsl_to_hex(Md5Hue(IF name = "" THEN "default" ELSE name), Saturation, Lightness)

\* generate_color_for_name of peacock-sync.py and pane-title-colored.py:
\* the name is hashed as it is
legacy_generate_color_for_name(name) ==
    hsl_to_hex(Md5Hue(name), Saturation, Lightness)

\* ------------------------------------------------------- JSON documents
Basenames == {"proj", "other", ""}
Keys == {"peacock.color", "proj", "other", "root", ""}
KeyOrder == <<"peacock.color", "proj", "other", "root", "">>

NoEntries == [k \in Keys |-> Missing]
DocOf(v) == [t |-> v.t, s |-> v.s, o |-> NoEntries]
EmptyObj == [t |-> "obj", s |-> <<>>, o |-> NoEntries]
NoneDoc == DocOf(JNull)
ObjWith(d, k, v) == [d EXCEPT !.o[k] = v]
Has(d, k) == d.o[k] # Missing

\* bool(v) of Python for a JSON value and for a document
TruthyVal(v) ==
    CASE v.t \in {"missing", "null"} -> FALSE
      [] v.t = "num" -> v.s # <<"0">>
      [] v.t = "bool" -> v.s = <<"true">>
      [] OTHER -> v.s # <<>>
Truthy(d) == IF d.t = "obj" THEN \E k \in Keys : Has(d, k) ELSE TruthyVal(J(d.t, d.s))

\* The text of a file is a sequence of tokens: "{", one "kv" per entry, "}"
\* for an object; one "val" for any other value; "nul" for the zero bytes of
\* a hole; "badutf8" for bytes that are not UTF-8; "junk" for other text.
Tok(tk) == [tk |-> tk, k |-> "", v |-> Missing]
KV(k, v) == [tk |-> "kv", k |-> k, v |-> v]

RECURSIVE EntryTokens(_, _)
EntryTokens(d, i) ==
    IF i > Len(KeyOrder) THEN <<>>
    ELSE (IF Has(d, KeyOrder[i]) THEN <<KV(KeyOrder[i], d.o[KeyOrder[i]])>> ELSE <<>>)
         \o EntryTokens(d, i + 1)

\* json.dump(data, f, indent=2): the text written
json_dump(d) ==
    IF d.t = "obj" THEN <<Tok("{")>> \o EntryTokens(d, 1) \o <<Tok("}")>>
    ELSE <<[tk |-> "val", k |-> "", v |-> J(d.t, d.s)]>>

RECURSIVE EntriesOf(_, _)
EntriesOf(toks, d) ==
    IF toks = <<>> THEN d
    ELSE EntriesOf(Tail(toks), ObjWith(d, Head(toks).k, Head(toks).v))

\* json.load(f): [err |-> "none", doc |-> the value], err "json" for
\* JSONDecodeError, err "unicode" for UnicodeDecodeError (a ValueError)
json_load(data) ==
    LET n == Len(data)
        bad(e) == [err |-> e, doc |-> NoneDoc]
    IN  IF \E i \in 1..n : data[i].tk = "badutf8" THEN bad("unicode")
        ELSE IF n = 1 /\ data[1].tk = "val"
             THEN [err |-> "none", doc |-> DocOf(data[1].v)]
        ELSE IF n >= 2 /\ data[1].tk = "{" /\ data[n].tk = "}"
                /\ \A i \in 2..(n - 1) : data[i].tk = "kv"
             THEN [err |-> "none", doc |-> EntriesOf(SubSeq(data, 2, n - 1), EmptyObj)]
        ELSE bad("json")

\* ----------------------------------------------------------------- files
\* kind: "absent", "file", "symlink" (data: the text of its target),
\* "dangling" (a symlink whose target does not exist), "unreadable" (a file
\* that open() refuses); big: padded beyond MAX_JSON_SIZE whatever the text
\* holds; ino: the inode the path names
File(kind, big, data, ino) == [kind |-> kind, big |-> big, data |-> data, ino |-> ino]
AbsentFile == File("absent", FALSE, <<>>, 0)

\* path.stat().st_size > max_size
TooBig(f) == f.big \/ Len(f.data) > MaxJsonTokens

\* safe_read_json: [raised, val]; val is NoneDoc for None
safe_read_json(f) ==
    LET none == [raised |-> FALSE, val |-> NoneDoc]
        r == json_load(f.data)
    IN  IF f.kind \in {"symlink", "dangling"} THEN none
        ELSE IF f.kind = "absent" THEN none
        ELSE IF TooBig(f) THEN none
        ELSE IF f.kind = "unreadable" THEN none
        ELSE IF r.err = "json" THEN none
        ELSE IF r.err = "unicode" THEN [raised |-> TRUE, val |-> NoneDoc]
        ELSE [raised |-> FALSE, val |-> r.doc]

\* load_color_cache of peacock_utils.py
load_color_cache(f) ==
    LET r == safe_read_json(f)
    IN  [raised |-> r.raised, val |-> IF r.val # NoneDoc THEN r.val ELSE EmptyObj]

\* --------------------------------------------- get_peacock_color (utils)
\* color_key = Path(target_directory).name or "root"
ColorKey(b) == IF b = "" THEN "root" ELSE b

Outcome(kind, color, cache) == [kind |-> kind, color |-> color, cache |-> cache]

\* lines 519-527: the settings tier.  "return" with the colour, "raise", or
\* "next" for the cache tier
SettingsTier(f) ==
    LET r == safe_read_json(f)
        settings == r.val
        existing == settings.o["peacock.color"]
        validated == IF TruthyVal(existing) THEN validate_hex_color(existing) ELSE None
    IN  IF r.raised THEN Outcome("raise", None, EmptyObj)
        ELSE IF ~Truthy(settings) THEN Outcome("next", None, EmptyObj)
        ELSE IF settings.t # "obj" THEN Outcome("raise", None, EmptyObj)
        ELSE IF validated # None THEN Outcome("return", validated, EmptyObj)
        ELSE Outcome("next", None, EmptyObj)

\* a cache tier that writes the generated colour into a fresh mapping
CacheTierFresh(f, key) ==
    LET r == load_color_cache(f)
        cache == r.val
        cached == validate_hex_color(cache.o[key])
        generated == generate_color_for_name(key)
    IN  IF r.raised THEN Outcome("raise", None, EmptyObj)
        ELSE IF cache.t # "obj" THEN Outcome("raise", None, EmptyObj)
        ELSE IF Has(cache, key) /\ cached # None THEN Outcome("return", cached, EmptyObj)
        ELSE Outcome("save", generated, ObjWith(EmptyObj, key, JStr(generated)))

\* lines 529-541: the cache tier.  `key in cache`, `cache[key]` and
\* `cache[key] = ...` raise TypeError, one or the other, on every value that
\* is not a dict.  "return" for a hit, "raise", or "save" with the generated
\* colour and the mapping to write
CacheTier(f, key) ==
    LET r == load_color_cache(f)
        cache == r.val
        cached == validate_hex_color(cache.o[key])
        generated == generate_color_for_name(key)
    IN  IF r.raised THEN Outcome("raise", None, EmptyObj)
        ELSE IF cache.t # "obj" THEN Outcome("raise", None, EmptyObj)
        ELSE IF Has(cache, key) /\ cached # None THEN Outcome("return", cached, EmptyObj)
        ELSE Outcome("save", generated, ObjWith(cache, key, JStr(generated)))

\* ------------------------------------------------------------------ state
VARIABLES
    settingsFile,   \* [Basenames -> file]: <target>/.vscode/settings.json
    cacheFile,      \* ~/.config/tmux-peacock-colors.json
    cacheFile0,     \* the cache file as it was when the processes started
    tmpFile,        \* [Procs -> "none" | "empty" | "written"]: mkstemp's file
    entry,          \* [Procs -> "utils" | "title" | "sync" | "lock" | "repo_utils" | "repo_colored" | "repo_plain" | "none"]
    target,         \* [Procs -> Basenames]: basename of target_directory
    pc,             \* [Procs -> the statement the process is at]
    color,          \* [Procs -> JSON value]: what get_peacock_color returned
    cache,          \* [Procs -> document]: the local `cache`
    saved,          \* [Procs -> "none" | "ok" | "failed"]: save_color_cache's result
    wpos,           \* [Procs -> Nat]: offset of the handle open(cache_file, 'w') gave
    wino,           \* [Procs -> Nat]: inode of that handle
    out,            \* [Procs -> what was printed or handed to tmux]
    exc,            \* [Procs -> "none" | "exit" | "error"]: pending SystemExit or exception
    seen,           \* [Procs -> file]: the cache file as the process read it
    lockFile,       \* /tmp/tmux-peacock-sync.lock: [exists, mtime, text]
    tmpMtime,       \* st_mtime of /tmp
    now,            \* the clock
    touched,        \* [Procs -> BOOLEAN]: ran lock_file.touch() (line 207)
    lostRace,       \* [Procs -> BOOLEAN]: took the sys.exit(0) of line 205
    orphaned,       \* a process died between touch() and its finally, none started since
    afterCrash,     \* [Procs -> BOOLEAN]: started first after such a death, alone
    lock_fd,        \* [Procs -> BOOLEAN]: FileLock.lock_fd is an open handle
    acquired,       \* [Procs -> BOOLEAN]: FileLock.acquired
    flockHeld,      \* the processes whose open handle holds the flock(2) lock
    ret,            \* [Procs -> "none" | "true" | "false"]: what the last acquire() returned, "none" during a call and after release()
    sawHeld,        \* [Procs -> BOOLEAN]: another handle held the lock at its flock()
    holding,        \* [Procs -> BOOLEAN]: acquire() returned True, no release() since
    gitRepo,        \* the repository: [worktree, remote, name, url, root]
    repoName        \* [Procs -> str | None]: the repository name computed

fsVars == <<settingsFile, cacheFile, cacheFile0, tmpFile>>
procVars == <<entry, target, pc, color, cache, saved, wpos, wino, out, exc, seen>>
syncVars == <<lockFile, tmpMtime, now, touched, lostRace, orphaned, afterCrash>>
flVars == <<lock_fd, acquired, flockHeld, ret, sawHeld, holding>>
repoVars == <<gitRepo, repoName>>
vars == <<fsVars, procVars, syncVars, flVars, repoVars>>

NoOutput == [printed |-> Missing, tmux |-> <<>>]

\* --------------------------------------- get_peacock_color (peacock_utils)
\* lines 519-527
UtilsSettings(p) ==
    /\ pc[p] = "u_settings"
    /\ LET o == SettingsTier(settingsFile[target[p]])
       IN  /\ pc' = [pc EXCEPT ![p] = CASE o.kind = "return" -> "done"
                                        [] o.kind = "raise" -> "raised"
                                        [] OTHER -> "u_cache"]
           /\ color' = [color EXCEPT ![p] =
                          IF o.kind = "return" THEN JStr(o.color) ELSE @]
    /\ UNCHANGED <<fsVars, entry, target, cache, saved, wpos, wino, out, exc, seen>>
    /\ UNCHANGED <<syncVars, flVars>>
    /\ UNCHANGED repoVars

\* lines 529-541
UtilsCache(p) ==
    /\ pc[p] = "u_cache"
    /\ LET o == CacheTier(cacheFile, ColorKey(target[p]))
       IN  /\ pc' = [pc EXCEPT ![p] = CASE o.kind = "return" -> "done"
                                        [] o.kind = "raise" -> "raised"
                                        [] OTHER -> "w_check"]
           /\ color' = [color EXCEPT ![p] =
                          IF o.kind = "raise" THEN @ ELSE JStr(o.color)]
           /\ cache' = [cache EXCEPT ![p] = IF o.kind = "save" THEN o.cache ELSE @]
    /\ seen' = [seen EXCEPT ![p] = cacheFile]
    /\ UNCHANGED <<fsVars, entry, target, saved, wpos, wino, out, exc>>
    /\ UNCHANGED <<syncVars, flVars>>
    /\ UNCHANGED repoVars

\* safe_write_json, lines 230-232: path.exists() and path.is_symlink().
\* exists() follows the link, so a dangling symlink is not refused
WriteCheck(p) ==
    /\ pc[p] = "w_check"
    /\ IF cacheFile.kind = "symlink"
       THEN /\ pc' = [pc EXCEPT ![p] = "done"]
            /\ saved' = [saved EXCEPT ![p] = "failed"]
       ELSE /\ pc' = [pc EXCEPT ![p] = "w_mkstemp"]
            /\ UNCHANGED saved
    /\ UNCHANGED <<fsVars, entry, target, color, cache, wpos, wino, out, exc, seen>>
    /\ UNCHANGED <<syncVars, flVars>>
    /\ UNCHANGED repoVars

\* lines 236-239: mkdir and mkstemp; OSError returns False
WriteMkstemp(p) ==
    /\ pc[p] = "w_mkstemp"
    /\ \E ok \in BOOLEAN :
         IF ok
         THEN /\ tmpFile' = [tmpFile EXCEPT ![p] = "empty"]
              /\ pc' = [pc EXCEPT ![p] = "w_write"]
              /\ UNCHANGED saved
         ELSE /\ pc' = [pc EXCEPT ![p] = "done"]
              /\ saved' = [saved EXCEPT ![p] = "failed"]
              /\ UNCHANGED tmpFile
    /\ UNCHANGED <<settingsFile, cacheFile, cacheFile0, entry, target, color, cache, wpos, wino, out, exc, seen>>
    /\ UNCHANGED <<syncVars, flVars>>
    /\ UNCHANGED repoVars

\* lines 250-253: os.unlink(tmp_path), its OSError passed over: what is left
\* of the temporary file
Cleanup(left, unlinked) == IF unlinked THEN "none" ELSE left

\* lines 241-244: json.dump into the temporary file, chmod; on an exception
\* the temporary file is unlinked (lines 248-254)
WriteTmp(p) ==
    /\ pc[p] = "w_write"
    /\ \E ok, unlinked \in BOOLEAN :
         IF ok
         THEN /\ unlinked
              /\ tmpFile' = [tmpFile EXCEPT ![p] = "written"]
              /\ pc' = [pc EXCEPT ![p] = "w_rename"]
              /\ UNCHANGED saved
         ELSE /\ tmpFile' = [tmpFile EXCEPT ![p] = Cleanup("empty", unlinked)]
              /\ pc' = [pc EXCEPT ![p] = "done"]
              /\ saved' = [saved EXCEPT ![p] = "failed"]
    /\ UNCHANGED <<settingsFile, cacheFile, cacheFile0, entry, target, color, cache, wpos, wino, out, exc, seen>>
    /\ UNCHANGED <<syncVars, flVars>>
    /\ UNCHANGED repoVars

\* what os.rename(tmp_path, path) leaves at the path: the temporary file,
\* complete, under a new inode
Renamed(p, d) == File("file", FALSE, json_dump(d), p)

\* lines 246-247, or 248-254 when rename fails
WriteRename(p) ==
    /\ pc[p] = "w_rename"
    /\ \E ok, unlinked \in BOOLEAN :
         IF ok
         THEN /\ unlinked
              /\ cacheFile' = Renamed(p, cache[p])
              /\ saved' = [saved EXCEPT ![p] = "ok"]
              /\ tmpFile' = [tmpFile EXCEPT ![p] = "none"]
         ELSE /\ UNCHANGED cacheFile
              /\ saved' = [saved EXCEPT ![p] = "failed"]
              /\ tmpFile' = [tmpFile EXCEPT ![p] = Cleanup("written", unlinked)]
    /\ pc' = [pc EXCEPT ![p] = "done"]
    /\ UNCHANGED <<settingsFile, cacheFile0, entry, target, color, cache, wpos, wino, out, exc, seen>>
    /\ UNCHANGED <<syncVars, flVars>>
    /\ UNCHANGED repoVars

UtilsStep(p) ==
    \/ UtilsSettings(p)
    \/ UtilsCache(p)
    \/ WriteCheck(p)
    \/ WriteMkstemp(p)
    \/ WriteTmp(p)
    \/ WriteRename(p)

\* ------------------- get_peacock_color (peacock-sync, pane-title-colored)
\* The two scripts carry the same get_peacock_color, load_color_cache and
\* save_color_cache.  The settings tier: no symlink or size check, and the
\* colour is returned as it was read.
LegacySettingsTier(f) ==
    LET r == json_load(f.data)
        existing == r.doc.o["peacock.color"]
    IN  IF f.kind \in {"absent", "dangling", "unreadable"}
        THEN Outcome("next", Missing, EmptyObj)
        ELSE IF r.err = "json" THEN Outcome("next", Missing, EmptyObj)
        ELSE IF r.err = "unicode" THEN Outcome("raise", Missing, EmptyObj)
        ELSE IF r.doc.t # "obj" THEN Outcome("raise", Missing, EmptyObj)
        ELSE IF TruthyVal(existing) THEN Outcome("return", existing, EmptyObj)
        ELSE Outcome("next", Missing, EmptyObj)

\* load_color_cache of the two scripts: [raised, val]
legacy_load_color_cache(f) ==
    LET r == json_load(f.data)
    IN  IF f.kind \in {"absent", "dangling", "unreadable"}
        THEN [raised |-> FALSE, val |-> EmptyObj]
        ELSE IF r.err = "json" THEN [raised |-> FALSE, val |-> EmptyObj]
        ELSE IF r.err = "unicode" THEN [raised |-> TRUE, val |-> EmptyObj]
        ELSE [raised |-> FALSE, val |-> r.doc]

\* the cache tier: the key is the basename as it is, the cached value is
\* returned as it was read; a value that is not a dict (None for null
\* included) raises TypeError
LegacyCacheTier(f, key) ==
    LET r == legacy_load_color_cache(f)
        loaded == r.val
        generated == legacy_generate_color_for_name(key)
    IN  IF r.raised THEN Outcome("raise", Missing, EmptyObj)
        ELSE IF loaded.t # "obj" THEN Outcome("raise", Missing, EmptyObj)
        ELSE IF Has(loaded, key) THEN Outcome("return", loaded.o[key], EmptyObj)
        ELSE Outcome("save", JStr(generated), ObjWith(loaded, key, JStr(generated)))

\* where a script goes on after get_peacock_color, and where its exception goes
AfterColor(p) == IF entry[p] = "title" THEN "t_print" ELSE "s_tmux"
AfterRaise(p) == IF entry[p] = "title" THEN "raised" ELSE "s_finally"
RaiseIn(p) == [exc EXCEPT ![p] = "error"]

LegacySettings(p) ==
    /\ pc[p] = "l_settings"
    /\ LET o == LegacySettingsTier(settingsFile[target[p]])
       IN  /\ pc' = [pc EXCEPT ![p] = CASE o.kind = "return" -> AfterColor(p)
                                        [] o.kind = "raise" -> AfterRaise(p)
                                        [] OTHER -> "l_cache"]
           /\ color' = [color EXCEPT ![p] = IF o.kind = "return" THEN o.color ELSE @]
           /\ exc' = IF o.kind = "raise" THEN RaiseIn(p) ELSE exc
    /\ UNCHANGED <<fsVars, entry, target, cache, saved, wpos, wino, out, seen>>
    /\ UNCHANGED <<syncVars, flVars>>
    /\ UNCHANGED repoVars

LegacyCache(p) ==
    /\ pc[p] = "l_cache"
    /\ LET o == LegacyCacheTier(cacheFile, target[p])
       IN  /\ pc' = [pc EXCEPT ![p] = CASE o.kind = "return" -> AfterColor(p)
                                        [] o.kind = "raise" -> AfterRaise(p)
                                        [] OTHER -> "lw_open"]
           /\ color' = [color EXCEPT ![p] = IF o.kind = "raise" THEN @ ELSE o.color]
           /\ cache' = [cache EXCEPT ![p] = IF o.kind = "save" THEN o.cache ELSE @]
           /\ exc' = IF o.kind = "raise" THEN RaiseIn(p) ELSE exc
    /\ seen' = [seen EXCEPT ![p] = cacheFile]
    /\ UNCHANGED <<fsVars, entry, target, saved, wpos, wino, out>>
    /\ UNCHANGED <<syncVars, flVars>>
    /\ UNCHANGED repoVars

\* the file after open(cache_file, 'w') by p: created empty (the target of a
\* dangling symlink too), or truncated (through a symlink too)
Truncated(f, p) ==
    IF f.kind = "absent" THEN File("file", FALSE, <<>>, NumProcs + p)
    ELSE IF f.kind = "dangling" THEN File("symlink", FALSE, <<>>, NumProcs + p)
    ELSE [f EXCEPT !.data = <<>>, !.big = FALSE]

\* save_color_cache: mkdir and open(cache_file, 'w'); IOError is passed over
LegacyOpen(p) ==
    /\ pc[p] = "lw_open"
    /\ IF cacheFile.kind = "unreadable"
       THEN /\ pc' = [pc EXCEPT ![p] = AfterColor(p)]
            /\ UNCHANGED <<cacheFile, wpos, wino>>
       ELSE /\ cacheFile' = Truncated(cacheFile, p)
            /\ wino' = [wino EXCEPT ![p] = cacheFile'.ino]
            /\ wpos' = [wpos EXCEPT ![p] = 0]
            /\ pc' = [pc EXCEPT ![p] = "lw_write"]
    /\ UNCHANGED <<settingsFile, cacheFile0, tmpFile, entry, target, color, cache,
                   saved, out, exc, seen>>
    /\ UNCHANGED <<syncVars, flVars>>
    /\ UNCHANGED repoVars

\* the text of a file after a write of toks at offset pos: a hole reads as
\* zero bytes
WriteAt(data, pos, toks) ==
    LET padded == IF Len(data) < pos
                  THEN data \o [i \in 1..(pos - Len(data)) |-> Tok("nul")]
                  ELSE data
        n == IF Len(padded) > pos + Len(toks) THEN Len(padded) ELSE pos + Len(toks)
    IN  [i \in 1..n |-> IF i > pos /\ i <= pos + Len(toks) THEN toks[i - pos]
                        ELSE padded[i]]

\* json.dump(cache, f, indent=2) and the close: the text reaches the file in
\* one or more writes at the handle's own offset; a handle whose file was
\* renamed over writes to the old inode
LegacyWrite(p) ==
    /\ pc[p] = "lw_write"
    /\ LET toks == json_dump(cache[p])
       IN  \E n \in 1..(Len(toks) - wpos[p]) :
             /\ cacheFile' =
                  IF cacheFile.ino = wino[p] /\ cacheFile.kind \in {"file", "symlink"}
                  THEN [cacheFile EXCEPT !.data =
                          WriteAt(@, wpos[p], SubSeq(toks, wpos[p] + 1, wpos[p] + n))]
                  ELSE cacheFile
             /\ wpos' = [wpos EXCEPT ![p] = @ + n]
             /\ pc' = [pc EXCEPT ![p] =
                         IF wpos[p] + n = Len(toks) THEN AfterColor(p) ELSE @]
    /\ UNCHANGED <<settingsFile, cacheFile0, tmpFile, entry, target, color, cache,
                   saved, wino, out, exc, seen>>
    /\ UNCHANGED <<syncVars, flVars>>
    /\ UNCHANGED repoVars

\* pane-title-colored.py main, line 242: print(f"#[fg={color}]{title}#[default]")
TitlePrint(p) ==
    /\ pc[p] = "t_print"
    /\ out' = [out EXCEPT ![p].printed = color[p]]
    /\ pc' = [pc EXCEPT ![p] = "done"]
    /\ UNCHANGED <<fsVars, entry, target, color, cache, saved, wpos, wino, exc, seen>>
    /\ UNCHANGED <<syncVars, flVars>>
    /\ UNCHANGED repoVars

LegacyStep(p) ==
    \/ LegacySettings(p)
    \/ LegacyCache(p)
    \/ LegacyOpen(p)
    \/ LegacyWrite(p)

\* ------------------------------------------- peacock-sync.py: the styles
\* int(s, 16) of Python for a slice of at most two characters: -1 stands for
\* ValueError
PyInt16(s) ==
    LET t == Strip(s)
    IN  IF t = <<>> \/ \E i \in 1..Len(t) : ~IsHexDigit(t[i]) THEN -1
        ELSE IF Len(t) = 1 THEN HexVal(t[1])
        ELSE 16 * HexVal(t[1]) + HexVal(t[2])

\* hex_to_rgb of peacock-sync.py: hex_color.lstrip('#'), then three slices;
\* <<>> stands for the exception (AttributeError for a value that is no str,
\* ValueError for a slice that is no number)
legacy_hex_to_rgb(v) ==
    LET h == LStrip(v.s, {"#"})
        rgb == <<PyInt16(Slice(h, 0, 2)), PyInt16(Slice(h, 2, 4)), PyInt16(Slice(h, 4, 6))>>
    IN  IF ~IsStr(v) THEN <<>>
        ELSE IF \E i \in 1..3 : rgb[i] = -1 THEN <<>>
        ELSE rgb

\* mute_color(hex_color, factor), the factor in tenths
legacy_mute_color(rgb, tenths) ==
    rgb_to_hex(<<(rgb[1] * tenths) \div 10, (rgb[2] * tenths) \div 10,
                 (rgb[3] * tenths) \div 10>>)

DarkBackground == 30

\* create_background_tint(hex_color, factor), the factor in hundredths
legacy_create_background_tint(rgb, hundredths) ==
    LET tint(c) == (DarkBackground * 100 + (c - DarkBackground) * hundredths) \div 100
    IN  rgb_to_hex(<<tint(rgb[1]), tint(rgb[2]), tint(rgb[3])>>)

MutedTenths == 6
BrightTenths == 8
TintHundredths == 8

\* set_tmux_pane_colors: the four style values of the tmux set-option
\* commands, <<>> when computing them raises
TmuxStyles(v) ==
    LET rgb == legacy_hex_to_rgb(v)
    IN  IF ~TruthyVal(v)
        THEN <<JStr(<<"colour240">>), JStr(<<"colour250">>), JStr(<<"default">>),
               JStr(<<"default">>)>>
        ELSE IF rgb = <<>> THEN <<>>
        ELSE <<JStr(legacy_mute_color(rgb, MutedTenths)),
               JStr(legacy_mute_color(rgb, BrightTenths)),
               JStr(legacy_create_background_tint(rgb, TintHundredths)),
               JStr(<<"default">>)>>

\* ------------------------------------------- peacock-sync.py: main
StaleAfter == 5

\* the process is launched inside tmux (line 196 passes)
SyncStart(p) ==
    /\ pc[p] = "s_start"
    /\ pc' = [pc EXCEPT ![p] = "s_exists"]
    /\ afterCrash' = [afterCrash EXCEPT ![p] =
                        orphaned /\ \A q \in Procs \ {p} :
                                        pc[q] \in {"s_start", "done", "raised", "dead"}]
    /\ orphaned' = FALSE
    /\ UNCHANGED <<fsVars, entry, target, color, cache, saved, wpos, wino, out, exc, seen>>
    /\ UNCHANGED <<lockFile, tmpMtime, now, touched, lostRace, flVars>>
    /\ UNCHANGED repoVars

\* line 201: lock_file.exists()
SyncExists(p) ==
    /\ pc[p] = "s_exists"
    /\ pc' = [pc EXCEPT ![p] = IF lockFile.exists THEN "s_stale" ELSE "s_touch"]
    /\ UNCHANGED <<fsVars, entry, target, color, cache, saved, wpos, wino, out, exc, seen>>
    /\ UNCHANGED <<syncVars, flVars>>
    /\ UNCHANGED repoVars

\* lines 202-205: the lock is stale when its mtime is more than 5 s behind the
\* mtime of /tmp; otherwise sys.exit(0).  stat() of a file that is gone raises
SyncStale(p) ==
    /\ pc[p] = "s_stale"
    /\ IF ~lockFile.exists
       THEN /\ exc' = RaiseIn(p)
            /\ pc' = [pc EXCEPT ![p] = "s_finally"]
            /\ UNCHANGED lostRace
       ELSE IF lockFile.mtime + StaleAfter < tmpMtime
       THEN /\ pc' = [pc EXCEPT ![p] = "s_stale_unlink"]
            /\ UNCHANGED <<exc, lostRace>>
       ELSE /\ exc' = [exc EXCEPT ![p] = "exit"]
            /\ lostRace' = [lostRace EXCEPT ![p] = TRUE]
            /\ pc' = [pc EXCEPT ![p] = "s_finally"]
    /\ UNCHANGED <<fsVars, entry, target, color, cache, saved, wpos, wino, out, seen>>
    /\ UNCHANGED <<lockFile, tmpMtime, now, touched, orphaned, afterCrash, flVars>>
    /\ UNCHANGED repoVars

\* line 203: lock_file.unlink() of the stale lock
SyncStaleUnlink(p) ==
    /\ pc[p] = "s_stale_unlink"
    /\ IF lockFile.exists
       THEN /\ lockFile' = [lockFile EXCEPT !.exists = FALSE]
            /\ tmpMtime' = now
            /\ pc' = [pc EXCEPT ![p] = "s_touch"]
            /\ UNCHANGED exc
       ELSE /\ exc' = RaiseIn(p)
            /\ pc' = [pc EXCEPT ![p] = "s_finally"]
            /\ UNCHANGED <<lockFile, tmpMtime>>
    /\ UNCHANGED <<fsVars, entry, target, color, cache, saved, wpos, wino, out, seen>>
    /\ UNCHANGED <<now, touched, lostRace, orphaned, afterCrash, flVars>>
    /\ UNCHANGED repoVars

\* line 207: lock_file.touch() creates the file or sets its mtime
SyncTouch(p) ==
    /\ pc[p] = "s_touch"
    /\ lockFile' = [exists |-> TRUE, mtime |-> now,
                    text |-> IF lockFile.exists THEN lockFile.text ELSE ""]
    /\ tmpMtime' = IF lockFile.exists THEN tmpMtime ELSE now
    /\ touched' = [touched EXCEPT ![p] = TRUE]
    /\ pc' = [pc EXCEPT ![p] = "l_settings"]
    /\ UNCHANGED <<fsVars, entry, target, color, cache, saved, wpos, wino, out, exc, seen>>
    /\ UNCHANGED <<now, lostRace, orphaned, afterCrash, flVars>>
    /\ UNCHANGED repoVars

\* line 211: set_tmux_pane_colors(peacock_color)
SyncTmux(p) ==
    /\ pc[p] = "s_tmux"
    /\ IF TmuxStyles(color[p]) = <<>>
       THEN exc' = RaiseIn(p) /\ UNCHANGED out
       ELSE out' = [out EXCEPT ![p].tmux = TmuxStyles(color[p])] /\ UNCHANGED exc
    /\ pc' = [pc EXCEPT ![p] = "s_finally"]
    /\ UNCHANGED <<fsVars, entry, target, color, cache, saved, wpos, wino, seen>>
    /\ UNCHANGED <<syncVars, flVars>>
    /\ UNCHANGED repoVars

\* how the process ends once the finally block is through
Ended(p) == IF exc[p] = "error" THEN "raised" ELSE "done"

\* line 214: if lock_file.exists()
SyncFinally(p) ==
    /\ pc[p] = "s_finally"
    /\ pc' = [pc EXCEPT ![p] = IF lockFile.exists THEN "s_unlink" ELSE Ended(p)]
    /\ UNCHANGED <<fsVars, entry, target, color, cache, saved, wpos, wino, out, exc, seen>>
    /\ UNCHANGED <<syncVars, flVars>>
    /\ UNCHANGED repoVars

\* line 215: lock_file.unlink(); FileNotFoundError when another process
\* removed the file first
SyncUnlink(p) ==
    /\ pc[p] = "s_unlink"
    /\ IF lockFile.exists
       THEN /\ lockFile' = [lockFile EXCEPT !.exists = FALSE]
            /\ tmpMtime' = now
            /\ pc' = [pc EXCEPT ![p] = Ended(p)]
       ELSE /\ pc' = [pc EXCEPT ![p] = "raised"]
            /\ UNCHANGED <<lockFile, tmpMtime>>
    /\ UNCHANGED <<fsVars, entry, target, color, cache, saved, wpos, wino, out, exc, seen>>
    /\ UNCHANGED <<now, touched, lostRace, orphaned, afterCrash, flVars>>
    /\ UNCHANGED repoVars

\* between lock_file.touch() and the end of the finally block
HoldsSyncLock(p) == touched[p] /\ pc[p] \notin {"done", "raised", "dead"}

\* the process is killed: no finally block runs
SyncKilled(p) ==
    /\ entry[p] = "sync"
    /\ pc[p] \notin {"s_start", "done", "raised", "dead"}
    /\ pc' = [pc EXCEPT ![p] = "dead"]
    /\ orphaned' = (orphaned \/ HoldsSyncLock(p))
    /\ UNCHANGED <<fsVars, entry, target, color, cache, saved, wpos, wino, out, exc, seen>>
    /\ UNCHANGED <<lockFile, tmpMtime, now, touched, lostRace, afterCrash, flVars>>
    /\ UNCHANGED repoVars

\* a second passes
Tick ==
    /\ now < MaxTime
    /\ now' = now + 1
    /\ UNCHANGED <<fsVars, procVars, flVars>>
    /\ UNCHANGED <<lockFile, tmpMtime, touched, lostRace, orphaned, afterCrash>>
    /\ UNCHANGED repoVars

\* another program creates or removes a file in /tmp
TmpDirChanges ==
    /\ tmpMtime # now
    /\ tmpMtime' = now
    /\ UNCHANGED <<fsVars, procVars, flVars>>
    /\ UNCHANGED <<lockFile, now, touched, lostRace, orphaned, afterCrash>>
    /\ UNCHANGED repoVars

SyncStep(p) ==
    \/ SyncStart(p)
    \/ SyncExists(p)
    \/ SyncStale(p)
    \/ SyncStaleUnlink(p)
    \/ SyncTouch(p)
    \/ SyncTmux(p)
    \/ SyncFinally(p)
    \/ SyncUnlink(p)
    \/ SyncKilled(p)

\* ---------------------------------------------------------------- FileLock
\* open(self.lock_path, "w") creates or truncates the lock file; the handle
\* the attribute held before is dropped, which closes it and gives up its lock
AcquireOpen(p) ==
    /\ pc[p] = "idle"
    /\ lockFile' = [exists |-> TRUE,
                    mtime |-> now,
                    text |-> ""]
    /\ tmpMtime' = IF lockFile.exists THEN tmpMtime ELSE now
    /\ flockHeld' = flockHeld \ {p}
    /\ lock_fd' = [lock_fd EXCEPT ![p] = TRUE]
    /\ holding' = [holding EXCEPT ![p] = FALSE]
    /\ ret' = [ret EXCEPT ![p] = "none"]
    /\ pc' = [pc EXCEPT ![p] = "a_flock"]
    /\ UNCHANGED <<fsVars, entry, target, color, cache, saved, wpos, wino, out, exc, seen>>
    /\ UNCHANGED <<now, touched, lostRace, orphaned, afterCrash, acquired, sawHeld>>
    /\ UNCHANGED repoVars

\* a flock() that is granted whoever holds the lock (a shared lock, or no
\* flock() at all)
AcquireFlockNoExclusion(p) ==
    /\ pc[p] = "a_flock"
    /\ sawHeld' = [sawHeld EXCEPT ![p] = flockHeld \ {p} # {}]
    /\ flockHeld' = flockHeld \cup {p}
    /\ pc' = [pc EXCEPT ![p] = "a_write"]
    /\ UNCHANGED <<lock_fd, ret>>
    /\ UNCHANGED <<fsVars, entry, target, color, cache, saved, wpos, wino, out, exc, seen>>
    /\ UNCHANGED <<syncVars, acquired, holding>>
    /\ UNCHANGED repoVars

\* a flock() without LOCK_NB: the call waits for the holder
AcquireFlockBlocking(p) ==
    /\ pc[p] = "a_flock"
    /\ flockHeld \ {p} = {}
    /\ sawHeld' = [sawHeld EXCEPT ![p] = FALSE]
    /\ flockHeld' = flockHeld \cup {p}
    /\ pc' = [pc EXCEPT ![p] = "a_write"]
    /\ UNCHANGED <<lock_fd, ret>>
    /\ UNCHANGED <<fsVars, entry, target, color, cache, saved, wpos, wino, out, exc, seen>>
    /\ UNCHANGED <<syncVars, acquired, holding>>
    /\ UNCHANGED repoVars

\* lines 302 and 311-316: fcntl.flock(fd, LOCK_EX | LOCK_NB) takes the lock,
\* held by the open handle, and is refused at once while another handle holds
\* it; the refused call closes its handle and returns False
AcquireFlock(p) ==
    /\ pc[p] = "a_flock"
    /\ sawHeld' = [sawHeld EXCEPT ![p] = flockHeld \ {p} # {}]
    /\ IF flockHeld \ {p} = {}
       THEN /\ flockHeld' = flockHeld \cup {p}
            /\ pc' = [pc EXCEPT ![p] = "a_write"]
            /\ UNCHANGED <<lock_fd, ret>>
       ELSE /\ lock_fd' = [lock_fd EXCEPT ![p] = FALSE]
            /\ ret' = [ret EXCEPT ![p] = "false"]
            /\ pc' = [pc EXCEPT ![p] = "idle"]
            /\ UNCHANGED flockHeld
    /\ UNCHANGED <<fsVars, entry, target, color, cache, saved, wpos, wino, out, exc, seen>>
    /\ UNCHANGED <<syncVars, acquired, holding>>
    /\ UNCHANGED repoVars

\* lines 305-309: the PID is written, acquired is set, True is returned
AcquireWrite(p) ==
    /\ pc[p] = "a_write"
    /\ lockFile' = [lockFile EXCEPT !.text = "pid"]
    /\ acquired' = [acquired EXCEPT ![p] = TRUE]
    /\ ret' = [ret EXCEPT ![p] = "true"]
    /\ holding' = [holding EXCEPT ![p] = TRUE]
    /\ pc' = [pc EXCEPT ![p] = "idle"]
    /\ UNCHANGED <<fsVars, entry, target, color, cache, saved, wpos, wino, out, exc, seen>>
    /\ UNCHANGED <<tmpMtime, now, touched, lostRace, orphaned, afterCrash>>
    /\ UNCHANGED <<lock_fd, flockHeld, sawHeld>>
    /\ UNCHANGED repoVars

\* release(), lines 318-327: nothing happens without a handle
Release(p) ==
    /\ pc[p] = "idle"
    /\ IF lock_fd[p]
       THEN /\ flockHeld' = flockHeld \ {p}
            /\ lock_fd' = [lock_fd EXCEPT ![p] = FALSE]
            /\ acquired' = [acquired EXCEPT ![p] = FALSE]
       ELSE UNCHANGED <<flockHeld, lock_fd, acquired>>
    /\ holding' = [holding EXCEPT ![p] = FALSE]
    /\ ret' = [ret EXCEPT ![p] = "none"]
    /\ UNCHANGED <<fsVars, procVars, syncVars, sawHeld>>
    /\ UNCHANGED repoVars

\* the process ends, by exit or by a signal, at any point: the kernel closes
\* its handles, which gives up the lock
ProcessEnds(p) ==
    /\ entry[p] = "lock"
    /\ pc[p] # "dead"
    /\ pc' = [pc EXCEPT ![p] = "dead"]
    /\ flockHeld' = flockHeld \ {p}
    /\ lock_fd' = [lock_fd EXCEPT ![p] = FALSE]
    /\ holding' = [holding EXCEPT ![p] = FALSE]
    /\ UNCHANGED <<fsVars, entry, target, color, cache, saved, wpos, wino, out, exc, seen>>
    /\ UNCHANGED <<syncVars, acquired, ret, sawHeld>>
    /\ UNCHANGED repoVars

\* ------------------------------------------------------ repository name
\* s.split('/')[-1]: what follows the last '/'
RECURSIVE LastSegment(_)
LastSegment(s) ==
    IF s = <<>> THEN <<>>
    ELSE IF s[Len(s)] = "/" THEN <<>>
    ELSE LastSegment(SubSeq(s, 1, Len(s) - 1)) \o <<s[Len(s)]>>

\* url.rstrip("/").rstrip(".git").split("/")[-1]: rstrip takes a set of
\* characters
RepoNameOfUrl(url) == LastSegment(RStrip(RStrip(url, {"/"}), {".", "g", "i", "t"}))

\* get_repo_name of peacock_utils.py: the root's basename for a worktree
\* (.git is a file) and when the query of the origin URL fails
get_repo_name(g) ==
    IF g.worktree THEN g.root
    ELSE IF g.remote THEN RepoNameOfUrl(Strip(g.url))
    ELSE g.root

\* repo_name of get_worktree_info of pane-title-colored.py and pane-title.py
legacy_repo_name(g) ==
    IF g.worktree THEN g.root
    ELSE IF g.remote THEN RepoNameOfUrl(Strip(g.url))
    ELSE g.root

\* get_repo_name(directory, git_root) is called
GetRepoName(p) ==
    /\ entry[p] = "repo_utils"
    /\ pc[p] = "r_name"
    /\ repoName' = [repoName EXCEPT ![p] = get_repo_name(gitRepo)]
    /\ pc' = [pc EXCEPT ![p] = "done"]
    /\ UNCHANGED <<fsVars, entry, target, color, cache, saved, wpos, wino, out, exc, seen>>
    /\ UNCHANGED <<syncVars, flVars, gitRepo>>

\* get_worktree_info(directory, git_root) of one of the two title scripts is
\* called
GetWorktreeInfo(p) ==
    /\ entry[p] \in {"repo_colored", "repo_plain"}
    /\ pc[p] = "r_name"
    /\ repoName' = [repoName EXCEPT ![p] = legacy_repo_name(gitRepo)]
    /\ pc' = [pc EXCEPT ![p] = "done"]
    /\ UNCHANGED <<fsVars, entry, target, color, cache, saved, wpos, wino, out, exc, seen>>
    /\ UNCHANGED <<syncVars, flVars, gitRepo>>

\* ------------------------------------------------------------ the inputs
ColUpper == <<"#", "1", "E", "9", "0", "F", "F">>
ColPadded == <<" ", "1", "e", "9", "0", "f", "f", "\n">>
ColNamed == <<"r", "e", "d">>
ColShort == <<"#", "f", "f", "f">>

RegularFile(d) == File("file", FALSE, json_dump(d), 0)
WithColor(v) == ObjWith(EmptyObj, "peacock.color", v)

\* top-level JSON values that are not objects
OtherDocs ==
    { DocOf(J("list", <<"1">>)), DocOf(J("list", <<>>)), DocOf(JStr(<<"a">>)),
      DocOf(J("num", <<"5">>)), DocOf(J("num", <<"0">>)),
      DocOf(J("bool", <<"true">>)), NoneDoc }

\* files that hold no JSON value, or that safe_read_json refuses
BrokenFiles(d) ==
    { AbsentFile,
      File("symlink", FALSE, json_dump(d), 0),
      File("dangling", FALSE, <<>>, 0),
      File("file", TRUE, json_dump(d), 0),
      File("unreadable", FALSE, json_dump(d), 0),
      File("file", FALSE, <<>>, 0),
      File("file", FALSE, <<Tok("{")>>, 0),
      File("file", FALSE, <<Tok("junk")>>, 0),
      File("file", FALSE, <<Tok("badutf8")>>, 0) }

SettingsColors ==
    { JStr(ColUpper), JStr(ColPadded), JStr(ColNamed), JStr(ColShort), JStr(<<>>),
      J("num", <<"5">>), JNull, J("list", <<"a">>) }

AllSettingsFiles ==
    BrokenFiles(WithColor(JStr(ColUpper)))
    \cup { RegularFile(d) : d \in OtherDocs \cup {EmptyObj} }
    \cup { RegularFile(WithColor(v)) : v \in SettingsColors }

OtherKey(k) == IF k = "other" THEN "proj" ELSE "other"

CacheValues(k) ==
    { JStr(generate_color_for_name(k)), JStr(ColUpper), JStr(ColNamed), J("num", <<"5">>) }

CacheDocs(k) ==
    { EmptyObj, ObjWith(EmptyObj, OtherKey(k), JStr(generate_color_for_name(OtherKey(k)))) }
    \cup { ObjWith(EmptyObj, k, v) : v \in CacheValues(k) }
    \cup { ObjWith(ObjWith(EmptyObj, OtherKey(k), JStr(ColUpper)), k, v) :
             v \in {JStr(ColNamed), JStr(ColUpper)} }
    \cup { ObjWith(ObjWith(EmptyObj, OtherKey(k), JStr(ColUpper)), "peacock.color",
                   JStr(ColUpper)) }

AllCacheFiles(k) ==
    BrokenFiles(ObjWith(EmptyObj, k, JStr(ColUpper)))
    \cup { RegularFile(d) : d \in OtherDocs \cup CacheDocs(k) }

\* the part of the state that the processes of a specification do not use
IdleSync ==
    /\ lockFile = [exists |-> FALSE, mtime |-> 0, text |-> ""]
    /\ tmpMtime = 0
    /\ now = 0
    /\ touched = [p \in Procs |-> FALSE]
    /\ lostRace = [p \in Procs |-> FALSE]
    /\ orphaned = FALSE
    /\ afterCrash = [p \in Procs |-> FALSE]

IdleRepo ==
    /\ gitRepo = [worktree |-> FALSE, remote |-> FALSE, name |-> <<>>, url |-> <<>>,
                  root |-> <<>>]
    /\ repoName = [p \in Procs |-> None]

IdleLock ==
    /\ lock_fd = [p \in Procs |-> FALSE]
    /\ acquired = [p \in Procs |-> FALSE]
    /\ flockHeld = {}
    /\ ret = [p \in Procs |-> "none"]
    /\ sawHeld = [p \in Procs |-> FALSE]
    /\ holding = [p \in Procs |-> FALSE]

FreshLocals ==
    /\ tmpFile = [p \in Procs |-> "none"]
    /\ color = [p \in Procs |-> Missing]
    /\ cache = [p \in Procs |-> EmptyObj]
    /\ saved = [p \in Procs |-> "none"]
    /\ wpos = [p \in Procs |-> 0]
    /\ wino = [p \in Procs |-> 0]
    /\ out = [p \in Procs |-> NoOutput]
    /\ exc = [p \in Procs |-> "none"]
    /\ seen = [p \in Procs |-> AbsentFile]

\* ------------------------------------------------------------- SpecColor
\* One call of get_peacock_color of peacock_utils.py, for every state of the
\* settings file and of the cache file and every outcome of the cache write.
InitColor ==
    /\ \E b \in Basenames :
         /\ target = [p \in Procs |-> b]
         /\ \E sf \in AllSettingsFiles :
              settingsFile = [x \in Basenames |-> IF x = b THEN sf ELSE AbsentFile]
         /\ cacheFile \in AllCacheFiles(ColorKey(b))
    /\ cacheFile0 = cacheFile
    /\ entry = [p \in Procs |-> IF p = 1 THEN "utils" ELSE "none"]
    /\ pc = [p \in Procs |-> IF p = 1 THEN "u_settings" ELSE "done"]
    /\ FreshLocals
    /\ IdleSync
    /\ IdleLock
    /\ IdleRepo

NextColor == \E p \in Procs : UtilsStep(p)

SpecColor == InitColor /\ [][NextColor]_vars

\* ------------------------------------------------------------------ Spec
\* Concurrent processes resolving colours against one cache file: callers of
\* peacock_utils.get_peacock_color and runs of pane-title-colored.py.  The
\* cache file starts absent or as the program wrote it.
SharedSettings ==
    { AbsentFile,
      RegularFile(WithColor(JStr(ColUpper))),
      RegularFile(WithColor(JStr(ColNamed))),
      RegularFile(DocOf(J("list", <<"1">>))) }

SharedTargets == {"proj", "other"}

WrittenCaches ==
    { AbsentFile,
      RegularFile(ObjWith(EmptyObj, "proj", JStr(generate_color_for_name("proj")))),
      RegularFile(ObjWith(EmptyObj, "other", JStr(generate_color_for_name("other")))) }

Init ==
    /\ entry \in [Procs -> {"utils", "title"}]
    /\ target \in [Procs -> SharedTargets]
    /\ settingsFile \in { f \in [Basenames -> SharedSettings] :
                            \A b \in Basenames :
                                (\A p \in Procs : target[p] # b) => f[b] = AbsentFile }
    /\ cacheFile \in WrittenCaches
    /\ cacheFile0 = cacheFile
    /\ pc = [p \in Procs |-> IF entry[p] = "utils" THEN "u_settings" ELSE "l_settings"]
    /\ FreshLocals
    /\ IdleSync
    /\ IdleLock
    /\ IdleRepo

Next == \E p \in Procs : UtilsStep(p) \/ LegacyStep(p) \/ TitlePrint(p)

Spec == Init /\ [][Next]_vars

\* -------------------------------------------------------------- SpecLock
\* One FileLock instance per process, all on the same lock path, each calling
\* acquire() and release() in any order until its process ends.
InitLock ==
    /\ settingsFile = [b \in Basenames |-> AbsentFile]
    /\ cacheFile = AbsentFile
    /\ cacheFile0 = AbsentFile
    /\ entry = [p \in Procs |-> "lock"]
    /\ target = [p \in Procs |-> "proj"]
    /\ pc = [p \in Procs |-> "idle"]
    /\ FreshLocals
    /\ IdleSync
    /\ IdleLock
    /\ IdleRepo

NextLock ==
    \E p \in Procs :
        \/ AcquireOpen(p)
        \/ AcquireFlock(p)
        \/ AcquireWrite(p)
        \/ Release(p)
        \/ ProcessEnds(p)

SpecLock == InitLock /\ [][NextLock]_vars

\* -------------------------------------------------------------- SpecSync
\* Runs of peacock-sync.py, started at any time, each killed at any point or
\* left to finish, while the clock and /tmp move.
SyncSettings == { AbsentFile, RegularFile(WithColor(JStr(ColUpper))) }

InitSync ==
    /\ settingsFile \in [Basenames -> SyncSettings]
    /\ \A b \in Basenames : b # "proj" => settingsFile[b] = AbsentFile
    /\ cacheFile = AbsentFile
    /\ cacheFile0 = AbsentFile
    /\ entry = [p \in Procs |-> "sync"]
    /\ target = [p \in Procs |-> "proj"]
    /\ pc = [p \in Procs |-> "s_start"]
    /\ FreshLocals
    /\ IdleSync
    /\ IdleLock
    /\ IdleRepo

NextSync ==
    \/ \E p \in Procs : SyncStep(p) \/ LegacyStep(p)
    \/ Tick
    \/ TmpDirChanges

SpecSync == InitSync /\ [][NextSync]_vars

\* -------------------------------------------------------------- SpecRepo
\* The repository name, computed by each of the three scripts that compute
\* one, for origin URLs that end in NAME or NAME.git, with or without a
\* trailing slash, as `git remote get-url origin` prints them.
UrlPrefixes == { <<"h", ":", "/", "/", "x", "/", "u", "/">>, <<"g", "@", "x", ":", "u", "/">> }
RepoNames ==
    { <<"p", "r", "o", "j">>, <<"w", "i", "d", "g", "e", "t">>, <<"g", "i", "t">>,
      <<"a", "p", "i">>, <<"a", ".">>, <<"m", "y", "-", "g", "i", "t">>,
      <<"t", "m", "u", "x">>, <<"r", "e", "p", "o">> }
UrlSuffixes == { <<>>, <<".", "g", "i", "t">> }
UrlEndings == { <<"\n">>, <<"/", "\n">> }
RootNames == { <<"s", "r", "c">> }

Repositories ==
    { [worktree |-> w, remote |-> r, name |-> n, url |-> pre \o n \o suf \o e, root |-> d] :
        w \in BOOLEAN, r \in BOOLEAN, n \in RepoNames, pre \in UrlPrefixes,
        suf \in UrlSuffixes, e \in UrlEndings, d \in RootNames }

InitRepo ==
    /\ settingsFile = [b \in Basenames |-> AbsentFile]
    /\ cacheFile = AbsentFile
    /\ cacheFile0 = AbsentFile
    /\ \E e \in {"repo_utils", "repo_colored", "repo_plain"} :
         entry = [p \in Procs |-> IF p = 1 THEN e ELSE "none"]
    /\ target = [p \in Procs |-> "proj"]
    /\ pc = [p \in Procs |-> IF p = 1 THEN "r_name" ELSE "done"]
    /\ FreshLocals
    /\ IdleSync
    /\ IdleLock
    /\ gitRepo \in Repositories
    /\ repoName = [p \in Procs |-> None]

NextRepo == \E p \in Procs : GetRepoName(p) \/ GetWorktreeInfo(p)

SpecRepo == InitRepo /\ [][NextRepo]_vars

\* ------------------------------------------------- what the claims speak of
\* a HexColor: '#' and six lowercase hex digits
IsCanonicalHex(v) ==
    /\ v.t = "str"
    /\ Len(v.s) = 7
    /\ v.s[1] = "#"
    /\ \A i \in 2..7 : \E j \in 1..16 : v.s[i] = HexLower[j]

\* the HexColor a JSON value validates as (surrounding whitespace and the
\* case of the digits do not count), or None
HexColorOf(v) ==
    LET t == Strip(v.s)
        d == IF Len(t) = 7 /\ t[1] = "#" THEN Tail(t) ELSE t
    IN  IF v.t = "str" /\ Len(d) = 6 /\ \A i \in 1..6 : IsHexDigit(d[i])
        THEN <<"#">> \o [i \in 1..6 |-> LowerChar(d[i])]
        ELSE None

\* the object a file holds: a regular, readable file of at most MAX_JSON_SIZE
\* bytes whose text is a JSON object; EmptyObj otherwise
ObjectIn(f) ==
    IF f.kind = "file" /\ ~TooBig(f) /\ json_load(f.data).err = "none"
       /\ json_load(f.data).doc.t = "obj"
    THEN json_load(f.data).doc ELSE EmptyObj

\* the valid peacock.color a settings file declares, or None
DeclaredColor(f) == HexColorOf(ObjectIn(f).o["peacock.color"])

\* the valid cache entry of key k, or None
CachedColor(f, k) == HexColorOf(ObjectIn(f).o[k])

Finished(p) == pc[p] \in {"done", "raised", "dead"}
Running(p) == entry[p] # "none" /\ ~Finished(p)

\* C7: get_peacock_color returns the first available of the valid peacock.color
\* of the settings file, the valid cache entry of the colour key (the
\* basename, "root" for "/") and the colour derived from the key; an absent,
\* unparsable or invalid settings colour falls through to the cache tier.
ResolutionOrder ==
    \A p \in Procs :
        (entry[p] = "utils" /\ Finished(p)) =>
            LET k == ColorKey(target[p])
                s == DeclaredColor(settingsFile[target[p]])
                c == CachedColor(cacheFile0, k)
                expected == IF s # None THEN s
                            ELSE IF c # None THEN c
                            ELSE generate_color_for_name(k)
            IN  pc[p] = "done" /\ color[p] = JStr(expected)

\* C8: when the settings file declares a valid peacock.color, get_peacock_color
\* returns it in lowercase with a leading '#', and the cache file is neither
\* created nor rewritten (no temporary file either), whatever it held.
SettingsColorLeavesCache ==
    \A p \in Procs :
        (entry[p] = "utils" /\ DeclaredColor(settingsFile[target[p]]) # None) =>
            /\ pc[p] \in {"u_settings", "done"}
            /\ pc[p] = "done" =>
                 /\ color[p] = JStr(DeclaredColor(settingsFile[target[p]]))
                 /\ IsCanonicalHex(color[p])
            /\ cacheFile = cacheFile0
            /\ tmpFile[p] = "none"

\* C8 witness: "#1E90FF" declared, "#1e90ff" returned, over a cache file that
\* holds another value for the key
SettingsColorReturned ==
    \E p \in Procs :
        /\ entry[p] = "utils" /\ pc[p] = "done"
        /\ settingsFile[target[p]] = RegularFile(WithColor(JStr(ColUpper)))
        /\ color[p] = JStr(<<"#", "1", "e", "9", "0", "f", "f">>)
        /\ cacheFile0 = RegularFile(ObjWith(EmptyObj, ColorKey(target[p]), JStr(ColNamed)))
        /\ cacheFile = cacheFile0

\* C10: get_peacock_color never raises and returns a HexColor, for every state
\* of the settings file and of the cache file and every outcome of the write.
NeverFails ==
    \A p \in Procs :
        entry[p] = "utils" =>
            /\ pc[p] # "raised"
            /\ pc[p] = "done" => IsCanonicalHex(color[p])

\* a value that passes HexColor validation
Validates(v) == HexColorOf(v) # None

\* C1: with no valid settings override and a cache file that started absent
\* or as the program wrote it, every get_peacock_color call for a key returns
\* generate_color_for_name(key), in every interleaving of the processes.
SameColorEveryCall ==
    \A p \in Procs :
        (entry[p] = "utils" /\ Finished(p)
         /\ DeclaredColor(settingsFile[target[p]]) = None) =>
            /\ pc[p] = "done"
            /\ color[p] = JStr(generate_color_for_name(ColorKey(target[p])))

\* C2: whatever entry point writes the cache file, a process that reads it
\* finds it absent or complete (the prior or the new content), never empty,
\* truncated or partially written.
ReadersSeeCompleteFile ==
    \A p \in Procs :
        seen[p].kind = "absent" \/ json_load(seen[p].data).err = "none"

\* C9: in every entry point a colour read from the settings file or the cache
\* file is validated before use: what the resolver returns, what is printed
\* inside #[fg=...] and what the tmux styles are computed from validates as a
\* HexColor.
ValidatedBeforeUse ==
    \A p \in Procs :
        /\ color[p] # Missing => Validates(color[p])
        /\ out[p].printed # Missing => Validates(out[p].printed)
        /\ out[p].tmux # <<>> => Validates(color[p])

\* C3: of the FileLock instances of different processes on one lock path, at
\* most one holds the lock at any instant; an acquire() returns False exactly
\* when another process's handle held the lock at its flock(), so of two racing
\* calls exactly one returns True; and the flock() of a call is never made to
\* wait for the holder.
LockMutualExclusion ==
    /\ Cardinality({p \in Procs : holding[p]}) <= 1
    /\ \A p \in Procs : holding[p] => p \in flockHeld
    /\ \A p \in Procs : ret[p] = "true" => ~sawHeld[p]
    /\ \A p \in Procs : ret[p] = "false" => sawHeld[p] /\ ~lock_fd[p] /\ ~holding[p]
    /\ \A p \in Procs : pc[p] = "a_flock" => ENABLED AcquireFlock(p)

\* C3 witness: the loser has returned False while the winner still holds
LoserReturnedWhileHeld ==
    \E p, q \in Procs :
        /\ p # q
        /\ holding[p] /\ ret[p] = "true"
        /\ pc[q] = "idle" /\ ret[q] = "false" /\ sawHeld[q]

\* C4: at most one peacock-sync process at a time is between acquiring the
\* sync lock and releasing it.
SyncSerialized == Cardinality({p \in Procs : HoldsSyncLock(p)}) <= 1

\* C5: a peacock-sync process that found the sync lock held (and left by
\* sys.exit(0)) issues no tmux command and no step of it changes the lock
\* file, which so stays in place for its holder.
LoserLeavesLock ==
    [][\A p \in Procs :
          (lostRace[p] /\ pc'[p] # pc[p] /\ pc'[p] # "dead") =>
              /\ lockFile' = lockFile
              /\ out'[p] = NoOutput]_vars

\* C6: after a peacock-sync process died holding the sync lock, the next
\* invocation (started afterwards, no other one running) acquires the lock
\* and performs the sync.
NextRunSyncsAfterCrash ==
    \A p \in Procs :
        (afterCrash[p] /\ pc[p] \in {"done", "raised"}) =>
            touched[p] /\ out[p].tmux # <<>>

\* the process has run load_color_cache (line 533) on the file seen[p]
LoadedCache(p) == entry[p] = "utils" /\ pc[p] \notin {"u_settings", "u_cache"}
                  /\ SettingsTier(settingsFile[target[p]]).kind = "next"

\* C11: load_color_cache never raises and always returns a mapping: the empty
\* one whenever the cache file is absent, unreadable, a symbolic link,
\* oversized or holds no JSON object.
CacheLoadsAsMapping ==
    \A p \in Procs :
        LoadedCache(p) =>
            LET r == load_color_cache(seen[p])
            IN  /\ ~r.raised
                /\ r.val.t = "obj"
                /\ r.val = ObjectIn(seen[p])

\* the JSON object that the text of the file at the path is, whatever its
\* size; EmptyObj when it is none
ContentOf(f) ==
    IF f.kind = "file" /\ json_load(f.data).err = "none" /\ json_load(f.data).doc.t = "obj"
    THEN json_load(f.data).doc ELSE EmptyObj

\* the call of p found a cache entry for its key that fails validation, and no
\* valid settings colour
InvalidEntryFound(p) ==
    /\ entry[p] = "utils"
    /\ DeclaredColor(settingsFile[target[p]]) = None
    /\ Has(ObjectIn(cacheFile0), ColorKey(target[p]))
    /\ CachedColor(cacheFile0, ColorKey(target[p])) = None

\* C12: a cache entry that fails validation is a cache miss: the call returns
\* generate_color_for_name(key) after a cache write, and when the write
\* succeeded the cache file holds that colour for the key and every other
\* entry as before.
InvalidEntryRegenerated ==
    \A p \in Procs :
        (InvalidEntryFound(p) /\ pc[p] = "done") =>
            LET k == ColorKey(target[p])
            IN  /\ color[p] = JStr(generate_color_for_name(k))
                /\ saved[p] \in {"ok", "failed"}
                /\ saved[p] = "ok" =>
                     /\ ContentOf(cacheFile).o[k] = color[p]
                     /\ \A j \in Keys \ {k} :
                          ContentOf(cacheFile).o[j] = ObjectIn(cacheFile0).o[j]

\* C12 witness: the entry "red" of the key was overwritten, next to the entry
\* of another key
InvalidEntryOverwritten ==
    \E p \in Procs :
        /\ InvalidEntryFound(p) /\ pc[p] = "done" /\ saved[p] = "ok"
        /\ ObjectIn(cacheFile0).o[ColorKey(target[p])] = JStr(ColNamed)
        /\ Has(ObjectIn(cacheFile0), OtherKey(ColorKey(target[p])))
        /\ ContentOf(cacheFile).o[ColorKey(target[p])]
             = JStr(generate_color_for_name(ColorKey(target[p])))

\* C13: safe_write_json fails without effect: when the destination is a
\* symbolic link or a step of the write fails it returns False, the content
\* at the destination is unchanged and no temporary file is left, and
\* get_peacock_color still returns the derived colour.
FailedWriteWithoutEffect ==
    \A p \in Procs :
        (entry[p] = "utils" /\ pc[p] = "done" /\ saved[p] # "none") =>
            /\ cacheFile0.kind \in {"symlink", "dangling"} => saved[p] = "failed"
            /\ saved[p] = "failed" =>
                 /\ cacheFile = cacheFile0
                 /\ tmpFile[p] = "none"
                 /\ color[p] = JStr(generate_color_for_name(ColorKey(target[p])))

\* C14: cache round trip: after save_color_cache(load_color_cache() with the
\* key set to a valid colour) reported success, load_color_cache() returns
\* that mapping: the colour for the key, the other entries as loaded before.
CacheRoundTrip ==
    \A p \in Procs :
        (entry[p] = "utils" /\ pc[p] = "done" /\ saved[p] = "ok") =>
            LET r == load_color_cache(cacheFile)
            IN  /\ ~r.raised
                /\ r.val = cache[p]

\* C15: release() is safe in every state: after any sequence of acquire() and
\* release() calls of an instance, a release() leaves it with no open handle,
\* no lock held and acquired = False.
ReleaseLeavesNothing ==
    [][\A p \in Procs :
          Release(p) => /\ ~lock_fd'[p]
                        /\ p \notin flockHeld'
                        /\ ~acquired'[p]]_vars

\* C16: for a repository that is no worktree and whose origin URL query
\* succeeds, with a URL whose last segment is NAME or NAME.git (a trailing
\* slash or not), the repository name is exactly NAME.
RepoNameIsLastSegment ==
    \A p \in Procs :
        (entry[p] \in {"repo_utils", "repo_colored", "repo_plain"} /\ pc[p] = "done"
         /\ ~gitRepo.worktree /\ gitRepo.remote) =>
            repoName[p] = gitRepo.name

\* C17: concurrent cache writers do not lose each other's entries: when two
\* get_peacock_color calls for distinct keys both missed the cache and both
\* writes reported success, the cache file holds an entry for each of the two
\* keys and every entry it held before.
NoLostEntries ==
    \A p, q \in Procs :
        (/\ p # q
         /\ entry[p] = "utils" /\ entry[q] = "utils"
         /\ pc[p] = "done" /\ pc[q] = "done"
         /\ saved[p] = "ok" /\ saved[q] = "ok"
         /\ ColorKey(target[p]) # ColorKey(target[q])) =>
            /\ Has(ContentOf(cacheFile), ColorKey(target[p]))
            /\ Has(ContentOf(cacheFile), ColorKey(target[q]))
            /\ \A j \in Keys : Has(ContentOf(cacheFile0), j) => Has(ContentOf(cacheFile), j)

====
